---- MODULE Spec2Model ----
(***************************************************************************)
(* Model of Sources/nfs/include/nfs_shim.h: the C preprocessor working     *)
(* through the header, line by line, each time a translation unit          *)
(* includes it.  The wrapped libnfs headers are external to the            *)
(* repository: an #include of one of them is modelled by its observable    *)
(* effect on the translation unit (its declarations become visible), and   *)
(* the model records every time the shim pulls one in.                     *)
(***************************************************************************)
EXTENDS Naturals, Sequences, FiniteSets

\* Number of times the translation unit includes nfs_shim.h.
MaxInclusions == 3
\* Deepest include nesting at which nfs_shim.h is reached
\* (1 = included directly, more = reached through other headers).
MaxNesting == 2

\* The include-guard macro (lines 1, 2 and 15).
GuardName == "NFS_SHIM_H"

Blank == [kind |-> "blank", arg |-> ""]

Inc(h) == [kind |-> "include", arg |-> h]

\* The file with a wrapped header left out (libnfs-raw-rquota.h).
ShimFileMissing ==
  << [kind |-> "ifndef", arg |-> "NFS_SHIM_H"],
     [kind |-> "define", arg |-> "NFS_SHIM_H"],
     Blank,
     Inc("nfsc/libnfs-raw-mount.h"),
     Inc("nfsc/libnfs-raw-nfs.h"),
     Inc("nfsc/libnfs-raw-nfs4.h"),
     Inc("nfsc/libnfs-raw-nlm.h"),
     Inc("nfsc/libnfs-raw-nsm.h"),
     Inc("nfsc/libnfs-raw-portmap.h"),
     Blank,
     Inc("nfsc/libnfs-raw.h"),
     Inc("nfsc/libnfs-zdr.h"),
     Inc("nfsc/libnfs.h"),
     Blank,
     [kind |-> "endif", arg |-> ""] >>

\* The file with an include outside the interface list in place of line 3.
ShimFileExtra ==
  << [kind |-> "ifndef", arg |-> "NFS_SHIM_H"],
     [kind |-> "define", arg |-> "NFS_SHIM_H"],
     Inc("stdio.h"),
     Inc("nfsc/libnfs-raw-mount.h"),
     Inc("nfsc/libnfs-raw-nfs.h"),
     Inc("nfsc/libnfs-raw-nfs4.h"),
     Inc("nfsc/libnfs-raw-nlm.h"),
     Inc("nfsc/libnfs-raw-nsm.h"),
     Inc("nfsc/libnfs-raw-portmap.h"),
     Inc("nfsc/libnfs-raw-rquota.h"),
     Inc("nfsc/libnfs-raw.h"),
     Inc("nfsc/libnfs-zdr.h"),
     Inc("nfsc/libnfs.h"),
     Blank,
     [kind |-> "endif", arg |-> ""] >>

\* The file with a declaration of its own in place of line 3.
ShimFileOwnDecl ==
  << [kind |-> "ifndef", arg |-> "NFS_SHIM_H"],
     [kind |-> "define", arg |-> "NFS_SHIM_H"],
     [kind |-> "text", arg |-> "typedef struct nfs_context nfs_shim_ctx;"],
     Inc("nfsc/libnfs-raw-mount.h"),
     Inc("nfsc/libnfs-raw-nfs.h"),
     Inc("nfsc/libnfs-raw-nfs4.h"),
     Inc("nfsc/libnfs-raw-nlm.h"),
     Inc("nfsc/libnfs-raw-nsm.h"),
     Inc("nfsc/libnfs-raw-portmap.h"),
     Inc("nfsc/libnfs-raw-rquota.h"),
     Inc("nfsc/libnfs-raw.h"),
     Inc("nfsc/libnfs-zdr.h"),
     Inc("nfsc/libnfs.h"),
     Blank,
     [kind |-> "endif", arg |-> ""] >>

\* nfs_shim.h, one record per line (lines 1 to 15).
ShimFile ==
  << [kind |-> "ifndef", arg |-> "NFS_SHIM_H"],
     [kind |-> "define", arg |-> "NFS_SHIM_H"],
     Blank,
     Inc("nfsc/libnfs-raw-mount.h"),
     Inc("nfsc/libnfs-raw-nfs.h"),
     Inc("nfsc/libnfs-raw-nfs4.h"),
     Inc("nfsc/libnfs-raw-nlm.h"),
     Inc("nfsc/libnfs-raw-nsm.h"),
     Inc("nfsc/libnfs-raw-portmap.h"),
     Inc("nfsc/libnfs-raw-rquota.h"),
     Inc("nfsc/libnfs-raw.h"),
     Inc("nfsc/libnfs-zdr.h"),
     Inc("nfsc/libnfs.h"),
     Blank,
     [kind |-> "endif", arg |-> ""] >>

NumLines == Len(ShimFile)

\* The ten wrapped libnfs headers.
LibnfsHeaders ==
  { "nfsc/libnfs-raw-mount.h", "nfsc/libnfs-raw-nfs.h", "nfsc/libnfs-raw-nfs4.h",
    "nfsc/libnfs-raw-nlm.h", "nfsc/libnfs-raw-nsm.h", "nfsc/libnfs-raw-portmap.h",
    "nfsc/libnfs-raw-rquota.h", "nfsc/libnfs-raw.h", "nfsc/libnfs-zdr.h",
    "nfsc/libnfs.h" }

\* Wrapped headers the translation unit may also include by itself.
TUHeaders == { "nfsc/libnfs.h", "nfsc/libnfs-raw.h" }

\* The interface categories of the specification.
Categories ==
  { "mount", "nfs3", "nfs4", "nlm", "nsm", "portmap", "rquota",
    "rpc", "xdr", "client-api" }

\* The protocol a header carries, read from its file name.
Category(h) ==
  CASE h = "nfsc/libnfs-raw-mount.h"   -> "mount"
    [] h = "nfsc/libnfs-raw-nfs.h"     -> "nfs3"
    [] h = "nfsc/libnfs-raw-nfs4.h"    -> "nfs4"
    [] h = "nfsc/libnfs-raw-nlm.h"     -> "nlm"
    [] h = "nfsc/libnfs-raw-nsm.h"     -> "nsm"
    [] h = "nfsc/libnfs-raw-portmap.h" -> "portmap"
    [] h = "nfsc/libnfs-raw-rquota.h"  -> "rquota"
    [] h = "nfsc/libnfs-raw.h"         -> "rpc"
    [] h = "nfsc/libnfs-zdr.h"         -> "xdr"
    [] h = "nfsc/libnfs.h"             -> "client-api"
    [] OTHER                           -> "other"

Range(s) == { s[i] : i \in 1..Len(s) }

NoDup(s) == \A i, j \in 1..Len(s) : s[i] = s[j] => i = j

VARIABLES
  pc,            \* line of nfs_shim.h to process next; 0 = outside the file
  nesting,       \* include depth of the inclusion in progress; 0 = outside
  inclusions,    \* inclusions of nfs_shim.h started so far
  macros,        \* macros defined in the translation unit
  visible,       \* headers whose declarations are visible
  condDepth,     \* open conditional groups of the file
  skipDepth,     \* depth of the group being skipped; 0 = not skipping
  defineLog,     \* macros the file's #define lines defined, in order
  included,      \* headers the file's #include lines pulled in, in order
  decls,         \* declarations made by the file's own text
  error,         \* preprocessing error raised by the file
  macrosAtEntry, \* macros when the latest inclusion began
  visibleAtEntry \* visible when the latest inclusion began

vars == << pc, nesting, inclusions, macros, visible, condDepth, skipDepth,
           defineLog, included, decls, error, macrosAtEntry, visibleAtEntry >>

Init ==
  /\ pc = 0
  /\ nesting = 0
  /\ inclusions = 0
  /\ macros = {}
  /\ visible = {}
  /\ condDepth = 0
  /\ skipDepth = 0
  /\ defineLog = << >>
  /\ included = << >>
  /\ decls = {}
  /\ error = "none"
  /\ macrosAtEntry = {}
  /\ visibleAtEntry = {}

InFile == pc \in 1..NumLines

Skipping == skipDepth # 0

\* #ifndef always lets the group through.
GuardOpenAlways(name, ms) == TRUE

\* The test of "#ifndef name": the group is processed iff name is not defined.
GuardOpen(name, ms) == name \notin ms

\* The translation unit reaches "#include <nfs_shim.h>", at include depth n.
TUIncludeShim(n) ==
  /\ pc = 0
  /\ inclusions < MaxInclusions
  /\ pc' = 1
  /\ nesting' = n
  /\ inclusions' = inclusions + 1
  /\ macrosAtEntry' = macros
  /\ visibleAtEntry' = visible
  /\ UNCHANGED << macros, visible, condDepth, skipDepth, defineLog, included,
                  decls, error >>

\* The translation unit includes a wrapped header by itself.
TUInclude(h) ==
  /\ pc = 0
  /\ visible' = visible \cup {h}
  /\ UNCHANGED << pc, nesting, inclusions, macros, condDepth, skipDepth,
                  defineLog, included, decls, error, macrosAtEntry,
                  visibleAtEntry >>

\* Line 1: #ifndef NFS_SHIM_H
Ifndef ==
  /\ InFile
  /\ ShimFile[pc].kind = "ifndef"
  /\ condDepth' = condDepth + 1
  /\ skipDepth' = IF Skipping THEN skipDepth
                  ELSE IF GuardOpen(ShimFile[pc].arg, macros) THEN 0
                  ELSE condDepth + 1
  /\ pc' = pc + 1
  /\ UNCHANGED << nesting, inclusions, macros, visible, defineLog, included,
                  decls, error, macrosAtEntry, visibleAtEntry >>

\* Line 2: #define NFS_SHIM_H
Define ==
  /\ InFile
  /\ ~Skipping
  /\ ShimFile[pc].kind = "define"
  /\ macros' = macros \cup {ShimFile[pc].arg}
  /\ defineLog' = Append(defineLog, ShimFile[pc].arg)
  /\ pc' = pc + 1
  /\ UNCHANGED << nesting, inclusions, visible, condDepth, skipDepth, included,
                  decls, error, macrosAtEntry, visibleAtEntry >>

\* Lines 4 to 13: #include <nfsc/...>
Include ==
  /\ InFile
  /\ ~Skipping
  /\ ShimFile[pc].kind = "include"
  /\ visible' = visible \cup {ShimFile[pc].arg}
  /\ included' = Append(included, ShimFile[pc].arg)
  /\ pc' = pc + 1
  /\ UNCHANGED << nesting, inclusions, macros, condDepth, skipDepth, defineLog,
                  decls, error, macrosAtEntry, visibleAtEntry >>

\* Lines 3 and 14 (blank), and any line that is no directive: its text
\* reaches the compiler as a declaration of the file's own.
Other ==
  /\ InFile
  /\ ~Skipping
  /\ ShimFile[pc].kind \in {"blank", "text"}
  /\ decls' = IF ShimFile[pc].kind = "text" THEN decls \cup {ShimFile[pc].arg}
              ELSE decls
  /\ pc' = pc + 1
  /\ UNCHANGED << nesting, inclusions, macros, visible, condDepth, skipDepth,
                  defineLog, included, error, macrosAtEntry, visibleAtEntry >>

\* A line inside a skipped group (lines 2 to 14 once NFS_SHIM_H is defined).
Skip ==
  /\ InFile
  /\ Skipping
  /\ ShimFile[pc].kind \notin {"ifndef", "endif"}
  /\ pc' = pc + 1
  /\ UNCHANGED << nesting, inclusions, macros, visible, condDepth, skipDepth,
                  defineLog, included, decls, error, macrosAtEntry,
                  visibleAtEntry >>

\* Line 15: #endif
Endif ==
  /\ InFile
  /\ ShimFile[pc].kind = "endif"
  /\ IF condDepth = 0
       THEN /\ error' = "endif without if"
            /\ UNCHANGED << condDepth, skipDepth >>
       ELSE /\ condDepth' = condDepth - 1
            /\ skipDepth' = IF skipDepth = condDepth THEN 0 ELSE skipDepth
            /\ error' = error
  /\ pc' = pc + 1
  /\ UNCHANGED << nesting, inclusions, macros, visible, defineLog, included,
                  decls, macrosAtEntry, visibleAtEntry >>

\* End of the file: back to the includer.
EndOfFile ==
  /\ pc = NumLines + 1
  /\ error' = IF condDepth # 0 THEN "unterminated conditional" ELSE error
  /\ condDepth' = 0
  /\ skipDepth' = 0
  /\ pc' = 0
  /\ nesting' = 0
  /\ UNCHANGED << inclusions, macros, visible, defineLog, included, decls,
                  macrosAtEntry, visibleAtEntry >>

Next ==
  \/ \E n \in 1..MaxNesting : TUIncludeShim(n)
  \/ \E h \in TUHeaders : TUInclude(h)
  \/ Ifndef
  \/ Define
  \/ Include
  \/ Other
  \/ Skip
  \/ Endif
  \/ EndOfFile

Spec == Init /\ [][Next]_vars

TypeOK ==
  /\ pc \in 0..(NumLines + 1)
  /\ nesting \in 0..MaxNesting
  /\ inclusions \in 0..MaxInclusions
  /\ condDepth \in Nat
  /\ skipDepth \in Nat
  /\ error \in {"none", "endif without if", "unterminated conditional"}

\* The headers named by the #include lines of the file.
FileIncludes ==
  { ShimFile[i].arg : i \in { j \in 1..NumLines : ShimFile[j].kind = "include" } }

\* An inclusion of nfs_shim.h has run to the end of the file.
InclusionDone == pc = 0 /\ inclusions >= 1

----------------------------------------------------------------------------
\* C1: once nfs_shim.h has been included in a translation unit where
\* NFS_SHIM_H was not yet defined, the declarations of all ten wrapped libnfs
\* headers are visible; and the file never raises a conflict: no macro is
\* defined twice by it, no wrapped header is pulled in twice by it, and its
\* conditional is balanced.
C1_AllVisibleNoConflict ==
  /\ (InclusionDone /\ GuardName \notin macrosAtEntry) => LibnfsHeaders \subseteq visible
  /\ NoDup(defineLog)
  /\ NoDup(included)
  /\ error = "none"

\* The first inclusion, entered with NFS_SHIM_H undefined, has completed.
C1_Witness ==
  /\ InclusionDone
  /\ GuardName \notin macrosAtEntry
  /\ visibleAtEntry = {}
  /\ LibnfsHeaders \subseteq visible

\* C2: the headers the file includes cover every category of the interface
\* list (mount, NFS v3, NFS v4, NLM, NSM, portmap, remote quota, low-level
\* RPC, XDR primitives, client API), and every #include of the file belongs
\* to one of them: nothing missing, nothing extra.
C2_IncludesMatchInterface ==
  /\ \A h \in FileIncludes : Category(h) \in Categories
  /\ InclusionDone =>
       /\ Range(included) = FileIncludes
       /\ { Category(h) : h \in Range(included) } = Categories
       /\ \A h \in Range(included) : Category(h) \in Categories

\* An inclusion has completed and its includes were all processed.
C2_Witness ==
  /\ InclusionDone
  /\ Len(included) = Cardinality(Categories)

\* C3: the file adds nothing of its own: the only macro it defines is
\* NFS_SHIM_H, its text declares nothing, and whatever becomes visible while
\* it is processed comes from a wrapped libnfs header it includes.
C3_NothingOfItsOwn ==
  /\ Range(defineLog) \subseteq {GuardName}
  /\ (macros \ macrosAtEntry) \subseteq {GuardName}
  /\ decls = {}
  /\ Range(included) \subseteq LibnfsHeaders
  /\ pc # 0 => (visible \ visibleAtEntry) \subseteq Range(included)

\* The whole file has been processed, all lines of the guarded group included.
C3_Witness ==
  /\ InclusionDone
  /\ defineLog = << GuardName >>
  /\ Range(included) = LibnfsHeaders
  /\ decls = {}

\* A step taken while nfs_shim.h is being included for the second time or
\* later (the #include that enters it, one of its lines, or its end).
LaterInclusionStep == inclusions' >= 2 /\ (pc # 0 \/ pc' # 0)

\* C4: inclusion is idempotent.  The first inclusion defines NFS_SHIM_H and
\* processes the ten #include lines once each; every later inclusion, direct
\* or nested, finds NFS_SHIM_H defined, skips every line up to #endif, and
\* changes neither the macros nor the visible declarations.
C4_Idempotent ==
  /\ [](InclusionDone =>
          /\ GuardName \in macros
          /\ defineLog = << GuardName >>
          /\ Len(included) = Cardinality(LibnfsHeaders)
          /\ Range(included) = LibnfsHeaders)
  /\ []((inclusions >= 2 /\ pc # 0) => GuardName \in macrosAtEntry)
  /\ []((inclusions >= 2 /\ pc \in 2..NumLines) => Skipping)
  /\ [][LaterInclusionStep =>
          UNCHANGED << macros, visible, defineLog, included, decls, error >>]_vars

\* A later inclusion, reached through another header, has run to the end.
C4_Witness ==
  /\ inclusions >= 2
  /\ pc = NumLines + 1
  /\ nesting >= 2
  /\ GuardName \in macrosAtEntry
  /\ Len(included) = Cardinality(LibnfsHeaders)

====
